---------------------------- MODULE Spec2Model ----------------------------
(***************************************************************************)
(* Model of the TableSelection widget (src/unnamed/part_000): a paste-only *)
(* text area whose content is normalised to a JSON table document, loaded  *)
(* from and saved to a host client.                                        *)
(*                                                                         *)
(* Text is a sequence of one-character strings.  A JSON value is a record  *)
(* tagged by its field t.                                                  *)
(***************************************************************************)
EXTENDS Integers, Sequences, FiniteSets, TLC

(***************************************************************************)
(* Bounds of the model.                                                    *)
(***************************************************************************)
\* the longest text handed to parseTextToJson in SpecParse
MaxLen == 4
\* the number of client.setValue calls followed in one session
MaxSaves == 2

(***************************************************************************)
(* Characters and strings.                                                 *)
(***************************************************************************)
Q == "\""
BS == "\\"
TAB == "\t"
NL == "\n"
SP == " "

\* what String.prototype.trim removes, and what JSON allows between tokens
WS == {SP, TAB, NL}

Digits == <<"0", "1", "2", "3", "4", "5", "6", "7", "8", "9">>

\* String.prototype.trim
Trim(s) ==
  IF \A i \in 1..Len(s) : s[i] \in WS THEN <<>>
  ELSE LET first == CHOOSE i \in 1..Len(s) :
                      s[i] \notin WS /\ \A j \in 1..(i - 1) : s[j] \in WS
           last == CHOOSE i \in 1..Len(s) :
                      s[i] \notin WS /\ \A j \in (i + 1)..Len(s) : s[j] \in WS
       IN SubSeq(s, first, last)

\* String.prototype.split with a one-character separator
RECURSIVE Split(_, _)
Split(s, d) ==
  IF \A i \in 1..Len(s) : s[i] # d THEN <<s>>
  ELSE LET i == CHOOSE k \in 1..Len(s) :
                  s[k] = d /\ \A j \in 1..(k - 1) : s[j] # d
       IN <<SubSeq(s, 1, i - 1)>> \o Split(SubSeq(s, i + 1, Len(s)), d)

\* String.prototype.includes with a one-character argument
Includes(s, d) == \E i \in 1..Len(s) : s[i] = d

RECURSIVE Concat(_)
Concat(ss) == IF ss = <<>> THEN <<>> ELSE Head(ss) \o Concat(Tail(ss))

RECURSIVE Join(_, _)
Join(ss, sep) ==
  IF ss = <<>> THEN <<>>
  ELSE IF Len(ss) = 1 THEN ss[1]
  ELSE ss[1] \o sep \o Join(Tail(ss), sep)

(***************************************************************************)
(* JSON values.                                                            *)
(***************************************************************************)
JNull == [t |-> "null"]
JBool(b) == [t |-> "bool", b |-> b]
JNum(n) == [t |-> "num", n |-> n]
JStr(s) == [t |-> "str", s |-> s]
JArr(items) == [t |-> "arr", items |-> items]
JObj(keys, vals) == [t |-> "obj", keys |-> keys, vals |-> vals]

\* property names of JsonTableData
DATA == <<"d", "a", "t", "a">>
METADATA == <<"m", "e", "t", "a", "d", "a", "t", "a">>
ROWS == <<"r", "o", "w", "s">>
COLUMNS == <<"c", "o", "l", "u", "m", "n", "s">>
SOURCE == <<"s", "o", "u", "r", "c", "e">>
CLIPBOARD == <<"c", "l", "i", "p", "b", "o", "a", "r", "d">>

HasKey(v, k) == v.t = "obj" /\ \E i \in 1..Len(v.keys) : v.keys[i] = k
Get(v, k) == v.vals[CHOOSE i \in 1..Len(v.keys) : v.keys[i] = k]

\* `parsed.data && Array.isArray(parsed.data)`
HasDataArray(v) == HasKey(v, DATA) /\ Get(v, DATA).t = "arr"

\* jsonData.data.length
DataLength(v) == Len(Get(v, DATA).items)

\* Number -> decimal text
RECURSIVE NumToStr(_)
NumToStr(n) ==
  IF n < 10 THEN <<Digits[n + 1]>>
  ELSE NumToStr(n \div 10) \o <<Digits[(n % 10) + 1]>>

\* JSON.stringify's quoting of a string
EscapeChar(c) ==
  IF c = Q THEN <<BS, Q>>
  ELSE IF c = BS THEN <<BS, BS>>
  ELSE IF c = NL THEN <<BS, "n">>
  ELSE IF c = TAB THEN <<BS, "t">>
  ELSE <<c>>
Quote(s) ==
  <<Q>> \o Concat([i \in 1..Len(s) |-> EscapeChar(s[i])]) \o <<Q>>

\* JSON.stringify(value)
RECURSIVE Stringify(_)
Stringify(v) ==
  CASE v.t = "null" -> <<"n", "u", "l", "l">>
    [] v.t = "bool" -> IF v.b THEN <<"t", "r", "u", "e">>
                       ELSE <<"f", "a", "l", "s", "e">>
    [] v.t = "num" -> NumToStr(v.n)
    [] v.t = "str" -> Quote(v.s)
    [] v.t = "arr" ->
         <<"[">> \o Join([i \in 1..Len(v.items) |-> Stringify(v.items[i])],
                         <<",">>) \o <<"]">>
    [] v.t = "obj" ->
         <<"{">> \o Join([i \in 1..Len(v.keys) |->
                            Quote(v.keys[i]) \o <<":">> \o Stringify(v.vals[i])],
                         <<",">>) \o <<"}">>

Indent(n) == [i \in 1..n |-> SP]

\* JSON.stringify(value, null, 2), the value starting at indentation ind
RECURSIVE Pretty(_, _)
Pretty(v, ind) ==
  CASE v.t = "arr" /\ v.items # <<>> ->
         <<"[", NL>>
         \o Join([i \in 1..Len(v.items) |->
                    Indent(ind + 2) \o Pretty(v.items[i], ind + 2)],
                 <<",", NL>>)
         \o <<NL>> \o Indent(ind) \o <<"]">>
    [] v.t = "obj" /\ v.keys # <<>> ->
         <<"{", NL>>
         \o Join([i \in 1..Len(v.keys) |->
                    Indent(ind + 2) \o Quote(v.keys[i]) \o <<":", SP>>
                    \o Pretty(v.vals[i], ind + 2)],
                 <<",", NL>>)
         \o <<NL>> \o Indent(ind) \o <<"}">>
    [] OTHER -> Stringify(v)

(***************************************************************************)
(* JSON.parse, for the grammar: objects, arrays, strings with the escapes  *)
(* \" \\ \/ \n \t, non-negative integers, null, true, false.  A parse      *)
(* returns [ok, v, i]: whether it succeeded, the value, and the index of   *)
(* the first character after it.                                           *)
(***************************************************************************)
Fail == [ok |-> FALSE, v |-> JNull, i |-> 0]
Ok(v, i) == [ok |-> TRUE, v |-> v, i |-> i]

\* the first index >= i that holds no whitespace (Len(s) + 1 if none)
SkipWs(s, i) ==
  CHOOSE j \in i..(Len(s) + 1) :
    /\ j = Len(s) + 1 \/ s[j] \notin WS
    /\ \A k \in i..(j - 1) : s[k] \in WS

At(s, i, c) == i <= Len(s) /\ s[i] = c

StartsAt(s, i, w) ==
  i + Len(w) - 1 <= Len(s) /\ \A k \in 1..Len(w) : s[i + k - 1] = w[k]

IsDigit(c) == \E d \in 1..10 : Digits[d] = c
DigitVal(c) == (CHOOSE d \in 1..10 : Digits[d] = c) - 1

\* the characters of a string literal, i just after the opening quote
RECURSIVE ScanString(_, _, _)
ScanString(s, i, acc) ==
  IF i > Len(s) THEN Fail
  ELSE IF s[i] = Q THEN Ok(JStr(acc), i + 1)
  ELSE IF s[i] = BS THEN
    IF i + 1 > Len(s) THEN Fail
    ELSE IF s[i + 1] \in {Q, BS, "/"} THEN
      ScanString(s, i + 2, Append(acc, s[i + 1]))
    ELSE IF s[i + 1] = "n" THEN ScanString(s, i + 2, Append(acc, NL))
    ELSE IF s[i + 1] = "t" THEN ScanString(s, i + 2, Append(acc, TAB))
    ELSE Fail
  ELSE IF s[i] \in {NL, TAB} THEN Fail
  ELSE ScanString(s, i + 1, Append(acc, s[i]))

RECURSIVE ScanDigits(_, _, _)
ScanDigits(s, i, n) ==
  IF i <= Len(s) /\ IsDigit(s[i])
  THEN ScanDigits(s, i + 1, 10 * n + DigitVal(s[i]))
  ELSE Ok(JNum(n), i)

\* a member added to an object: a repeated key keeps its place, the last
\* value wins
PutMember(keys, vals, k, v) ==
  IF \E j \in 1..Len(keys) : keys[j] = k
  THEN LET j == CHOOSE x \in 1..Len(keys) : keys[x] = k
       IN <<keys, [vals EXCEPT ![j] = v]>>
  ELSE <<Append(keys, k), Append(vals, v)>>

RECURSIVE ParseValue(_, _)
RECURSIVE ParseElements(_, _, _)
RECURSIVE ParseMembers(_, _, _, _)

ParseValue(s, i0) ==
  LET i == SkipWs(s, i0) IN
  IF i > Len(s) THEN Fail
  ELSE IF s[i] = Q THEN ScanString(s, i + 1, <<>>)
  ELSE IF s[i] = "0" THEN Ok(JNum(0), i + 1)
  ELSE IF IsDigit(s[i]) THEN ScanDigits(s, i, 0)
  ELSE IF StartsAt(s, i, <<"n", "u", "l", "l">>) THEN Ok(JNull, i + 4)
  ELSE IF StartsAt(s, i, <<"t", "r", "u", "e">>) THEN Ok(JBool(TRUE), i + 4)
  ELSE IF StartsAt(s, i, <<"f", "a", "l", "s", "e">>)
    THEN Ok(JBool(FALSE), i + 5)
  ELSE IF s[i] = "[" THEN
    LET j == SkipWs(s, i + 1) IN
    IF At(s, j, "]") THEN Ok(JArr(<<>>), j + 1)
    ELSE ParseElements(s, j, <<>>)
  ELSE IF s[i] = "{" THEN
    LET j == SkipWs(s, i + 1) IN
    IF At(s, j, "}") THEN Ok(JObj(<<>>, <<>>), j + 1)
    ELSE ParseMembers(s, j, <<>>, <<>>)
  ELSE Fail

ParseElements(s, i, acc) ==
  LET r == ParseValue(s, i) IN
  IF ~r.ok THEN Fail
  ELSE LET j == SkipWs(s, r.i) IN
       IF At(s, j, ",") THEN ParseElements(s, j + 1, Append(acc, r.v))
       ELSE IF At(s, j, "]") THEN Ok(JArr(Append(acc, r.v)), j + 1)
       ELSE Fail

ParseMembers(s, i0, keys, vals) ==
  LET i == SkipWs(s, i0) IN
  IF ~At(s, i, Q) THEN Fail
  ELSE LET k == ScanString(s, i + 1, <<>>) IN
    IF ~k.ok THEN Fail
    ELSE LET c == SkipWs(s, k.i) IN
      IF ~At(s, c, ":") THEN Fail
      ELSE LET r == ParseValue(s, c + 1) IN
        IF ~r.ok THEN Fail
        ELSE LET j == SkipWs(s, r.i)
                 kv == PutMember(keys, vals, k.v.s, r.v)
             IN IF At(s, j, ",") THEN ParseMembers(s, j + 1, kv[1], kv[2])
                ELSE IF At(s, j, "}") THEN Ok(JObj(kv[1], kv[2]), j + 1)
                ELSE Fail

\* JSON.parse(text): ok = FALSE models the SyntaxError it throws
JSONparse(s) ==
  LET r == ParseValue(s, 1) IN
  IF r.ok /\ SkipWs(s, r.i) = Len(s) + 1 THEN r ELSE Fail

(***************************************************************************)
(* parseTextToJson                                                         *)
(***************************************************************************)
\* `.map(cell => cell.trim())`
TrimAll(cells) == [i \in 1..Len(cells) |-> Trim(cells[i])]

\* variant of SplitCells: the comma is tried first
SplitCells_CommaFirst(line) ==
  IF Includes(line, ",") THEN TrimAll(Split(line, ","))
  ELSE TrimAll(Split(line, TAB))

SplitCells(line) ==
  IF Includes(line, TAB) THEN TrimAll(Split(line, TAB))
  ELSE TrimAll(Split(line, ","))

NonBlank(line) == Trim(line) # <<>>

CellsToJson(cells) == JArr([i \in 1..Len(cells) |-> JStr(cells[i])])

parseTextToJson(text) ==
  LET lines == SelectSeq(Split(text, NL), NonBlank)
      rows == [i \in 1..Len(lines) |-> SplitCells(lines[i])]
  IN JObj(<<DATA, METADATA>>,
          << JArr([i \in 1..Len(rows) |-> CellsToJson(rows[i])]),
             JObj(<<ROWS, COLUMNS, SOURCE>>,
                  << JNum(Len(rows)),
                     JNum(IF rows = <<>> THEN 0 ELSE Len(rows[1])),
                     JStr(CLIPBOARD) >>) >>)


(***************************************************************************)
(* The component's state.                                                  *)
(***************************************************************************)
VARIABLES
  isInitialized,  \* useMarketplaceClient().isInitialized
  client,         \* useMarketplaceClient().client is not null
  jsonData,       \* useState<JsonTableData | null>: a JSON value, JNull for null
  textInput,      \* useState<string>
  error,          \* useState<string | null>: Null for null
  hasChanges,     \* useState<boolean>
  isSaving,       \* useState<boolean>
  loadPc,         \* loadExistingData: "idle", "pending" (awaiting getValue), "done"
  closeTimers,    \* setTimeout callbacks scheduled and not yet run
  setValueCalls,  \* host side: the number of client.setValue calls
  setValueOk,     \* host side: how many of them returned without throwing
  lastValue,      \* host side: the text of the latest client.setValue call
  closeAppCalls,  \* host side: the number of client.closeApp calls
  lastEvent,      \* history: the event handled last
  edited          \* history: a paste or a clear has been handled

vars == << isInitialized, client, jsonData, textInput, error, hasChanges,
           isSaving, loadPc, closeTimers, setValueCalls, setValueOk,
           lastValue, closeAppCalls, lastEvent, edited >>

hostVars == << setValueCalls, setValueOk, lastValue, closeAppCalls >>

\* the null of `string | null`
Null == "null"
ErrNoData == "No valid table data found"
ErrNoClient == "Client not initialized"
ErrSave == "Failed to save data: host error"
ErrParse == "Failed to parse data: Invalid string length"

\* the five useState cells, as one record
View == [ jsonData |-> jsonData, textInput |-> textInput, error |-> error,
          hasChanges |-> hasChanges, isSaving |-> isSaving ]

\* the state after the setState calls of a handler are applied
SetView(v) ==
  /\ jsonData' = v.jsonData
  /\ textInput' = v.textInput
  /\ error' = v.error
  /\ hasChanges' = v.hasChanges
  /\ isSaving' = v.isSaving

InitialView == [ jsonData |-> JNull, textInput |-> <<>>, error |-> Null,
                 hasChanges |-> FALSE, isSaving |-> FALSE ]

(***************************************************************************)
(* handleTextChange                                                        *)
(***************************************************************************)
LooksLikeJson(text) ==
  LET t == Trim(text) IN t # <<>> /\ t[1] = "{" /\ t[Len(t)] = "}"

\* the document the try block arrives at (lines 59-79): what JSON.parse
\* throws is caught there
Candidate(text) ==
  IF LooksLikeJson(text)
  THEN LET parsed == JSONparse(text) IN
       IF parsed.ok /\ HasDataArray(parsed.v) THEN parsed.v
       ELSE parseTextToJson(text)
  ELSE parseTextToJson(text)

\* variant of handleTextChange: the empty-table branch keeps the document
handleTextChange_KeepsDocument(v, text, throws) ==
  LET v1 == [v EXCEPT !.error = Null, !.hasChanges = TRUE] IN
  IF Trim(text) = <<>>
  THEN [v1 EXCEPT !.textInput = <<>>, !.jsonData = JNull]
  ELSE LET doc == Candidate(text) IN
       IF DataLength(doc) = 0
       THEN [v1 EXCEPT !.error = ErrNoData]
       ELSE IF throws
       THEN [v1 EXCEPT !.error = ErrParse, !.textInput = <<>>,
                       !.jsonData = JNull]
       ELSE [v1 EXCEPT !.textInput = Pretty(doc, 0), !.jsonData = doc]

\* throws: JSON.stringify(jsonData, null, 2) of line 89 throws (a RangeError
\* for a rendering too long to hold), which the catch of line 92 reports
handleTextChange(v, text, throws) ==
  LET v1 == [v EXCEPT !.error = Null, !.hasChanges = TRUE] IN
  IF Trim(text) = <<>>
  THEN [v1 EXCEPT !.textInput = <<>>, !.jsonData = JNull]
  ELSE LET doc == Candidate(text) IN
       IF DataLength(doc) = 0
       THEN [v1 EXCEPT !.error = ErrNoData, !.textInput = <<>>,
                       !.jsonData = JNull]
       ELSE IF throws
       THEN [v1 EXCEPT !.error = ErrParse, !.textInput = <<>>,
                       !.jsonData = JNull]
       ELSE [v1 EXCEPT !.textInput = Pretty(doc, 0), !.jsonData = doc]

(***************************************************************************)
(* loadExistingData, after getValue resolved with `existing`:              *)
(* [isString, s], isString = FALSE for null or undefined.                  *)
(***************************************************************************)
NullValue == [isString |-> FALSE, s |-> <<>>]
StringValue(s) == [isString |-> TRUE, s |-> s]

\* which branch the load takes
LoadPath(existing) ==
  IF ~existing.isString \/ Trim(existing.s) = <<>> THEN "loadBlank"
  ELSE LET parsed == JSONparse(existing.s) IN
       IF parsed.ok /\ HasDataArray(parsed.v) THEN "loadDirect"
       ELSE "loadFallback"

\* variant of loadExistingData: the fallback leaves hasChanges as
\* handleTextChange set it
loadExistingData_FallbackKeepsChanges(v, existing, throws) ==
  IF LoadPath(existing) = "loadBlank" THEN v
  ELSE IF LoadPath(existing) = "loadDirect"
  THEN [v EXCEPT !.jsonData = JSONparse(existing.s).v,
                 !.textInput = existing.s,
                 !.hasChanges = FALSE]
  ELSE handleTextChange(v, existing.s, throws)

loadExistingData(v, existing, throws) ==
  IF LoadPath(existing) = "loadBlank" THEN v
  ELSE IF LoadPath(existing) = "loadDirect"
  THEN [v EXCEPT !.jsonData = JSONparse(existing.s).v,
                 !.textInput = existing.s,
                 !.hasChanges = FALSE]
  ELSE [handleTextChange(v, existing.s, throws) EXCEPT !.hasChanges = FALSE]

\* variant of loadRejected: the rejection is reported and the view cleared
loadRejected_Reports(v) ==
  [v EXCEPT !.error = "Failed to load data", !.textInput = <<>>,
            !.jsonData = JNull]

\* the catch around `await client.getValue()`: console.error only
loadRejected(v) == v

(***************************************************************************)
(* handleClear, handleSave                                                 *)
(***************************************************************************)
handleClear(v) ==
  [v EXCEPT !.textInput = <<>>, !.jsonData = JNull, !.error = Null,
            !.hasChanges = TRUE]

\* variant of SaveDisabled: a save in flight does not disable the button
SaveDisabled_IgnoresSaving(v) == ~v.hasChanges

\* the Save button's `disabled`
SaveDisabled(v) == ~v.hasChanges \/ v.isSaving

\* variant of DataToSave: the indented rendering is saved
DataToSave_Pretty(doc) == IF doc = JNull THEN <<>> ELSE Pretty(doc, 0)

\* `jsonData ? JSON.stringify(jsonData) : ""`
DataToSave(doc) == IF doc = JNull THEN <<>> ELSE Stringify(doc)

\* variant of handleSave: the catch does not reset isSaving
handleSave_CatchKeepsSaving(v, hasClient, throws) ==
  IF ~hasClient
  THEN [view |-> [v EXCEPT !.error = ErrNoClient], calls |-> <<>>, timers |-> 0]
  ELSE IF throws
  THEN [ view |-> [v EXCEPT !.isSaving = TRUE, !.error = ErrSave],
         calls |-> << [text |-> DataToSave(v.jsonData), ok |-> FALSE] >>,
         timers |-> 0 ]
  ELSE [ view |-> [v EXCEPT !.isSaving = TRUE, !.error = Null,
                            !.hasChanges = FALSE],
         calls |-> << [text |-> DataToSave(v.jsonData), ok |-> TRUE] >>,
         timers |-> 1 ]

\* variant of handleSave: the closeApp timer is set before setValue is called
handleSave_TimerFirst(v, hasClient, throws) ==
  IF ~hasClient
  THEN [view |-> [v EXCEPT !.error = ErrNoClient], calls |-> <<>>, timers |-> 0]
  ELSE IF throws
  THEN [ view |-> [v EXCEPT !.isSaving = FALSE, !.error = ErrSave],
         calls |-> << [text |-> DataToSave(v.jsonData), ok |-> FALSE] >>,
         timers |-> 1 ]
  ELSE [ view |-> [v EXCEPT !.isSaving = TRUE, !.error = Null,
                            !.hasChanges = FALSE],
         calls |-> << [text |-> DataToSave(v.jsonData), ok |-> TRUE] >>,
         timers |-> 1 ]

\* variant of handleSave: isSaving is reset once setValue returned
handleSave_ResetsSaving(v, hasClient, throws) ==
  IF ~hasClient
  THEN [view |-> [v EXCEPT !.error = ErrNoClient], calls |-> <<>>, timers |-> 0]
  ELSE IF throws
  THEN [ view |-> [v EXCEPT !.isSaving = FALSE, !.error = ErrSave],
         calls |-> << [text |-> DataToSave(v.jsonData), ok |-> FALSE] >>,
         timers |-> 0 ]
  ELSE [ view |-> [v EXCEPT !.isSaving = FALSE, !.error = Null,
                            !.hasChanges = FALSE],
         calls |-> << [text |-> DataToSave(v.jsonData), ok |-> TRUE] >>,
         timers |-> 1 ]

\* handleSave: the view after it, the setValue calls it made (text and
\* whether the call returned), and the closeApp timers it scheduled
handleSave(v, hasClient, throws) ==
  IF ~hasClient
  THEN [view |-> [v EXCEPT !.error = ErrNoClient], calls |-> <<>>, timers |-> 0]
  ELSE IF throws
  THEN [ view |-> [v EXCEPT !.isSaving = FALSE, !.error = ErrSave],
         calls |-> << [text |-> DataToSave(v.jsonData), ok |-> FALSE] >>,
         timers |-> 0 ]
  ELSE [ view |-> [v EXCEPT !.isSaving = TRUE, !.error = Null,
                            !.hasChanges = FALSE],
         calls |-> << [text |-> DataToSave(v.jsonData), ok |-> TRUE] >>,
         timers |-> 1 ]

\* the effect of lines 100-133: it starts a load when both are set
useEffectLoad(initialized, hasClient, pc) ==
  IF initialized /\ hasClient THEN "pending" ELSE pc

(***************************************************************************)
(* Inputs.                                                                 *)
(***************************************************************************)
TextCsv == <<"a", ",", "b", NL, "c">>
TextTab == <<"a", TAB, "b", ",", "c">>
TextBlank == <<SP>>
TextEmptyDoc == <<"{", Q>> \o DATA \o <<Q, ":", "[", "]", "}">>
TextDoc == <<SP, "{", Q>> \o DATA
             \o <<Q, ":", SP, "[", "[", Q, "x", Q, "]", "]", "}", NL>>
TextNoData == <<"{", Q, "x", Q, ":", "1", "}">>
TextBadJson == <<"{", "a", "}">>

PasteTexts == { TextCsv, TextTab, TextBlank, TextEmptyDoc, TextDoc,
                TextNoData, TextBadJson }

StoredValues == { NullValue, StringValue(TextBlank),
                  StringValue(Stringify(parseTextToJson(TextCsv))),
                  StringValue(TextEmptyDoc), StringValue(TextCsv),
                  StringValue(TextNoData) }

(***************************************************************************)
(* The state machine.                                                      *)
(***************************************************************************)
Init ==
  /\ isInitialized = FALSE
  /\ client = FALSE
  /\ jsonData = InitialView.jsonData
  /\ textInput = InitialView.textInput
  /\ error = InitialView.error
  /\ hasChanges = InitialView.hasChanges
  /\ isSaving = InitialView.isSaving
  /\ loadPc = "idle"
  /\ closeTimers = 0
  /\ setValueCalls = 0
  /\ setValueOk = 0
  /\ lastValue = <<>>
  /\ closeAppCalls = 0
  /\ lastEvent = "mount"
  /\ edited = FALSE

\* the hook reports readiness, with or without a client
HookInitialize ==
  /\ ~isInitialized
  /\ \E c \in BOOLEAN :
       /\ isInitialized' = TRUE
       /\ client' = c
       /\ loadPc' = useEffectLoad(TRUE, c, loadPc)
  /\ lastEvent' = "initialized"
  /\ UNCHANGED << jsonData, textInput, error, hasChanges, isSaving,
                  closeTimers, hostVars, edited >>

\* the hook delivers the client after it reported readiness
ClientReady ==
  /\ isInitialized /\ ~client
  /\ client' = TRUE
  /\ loadPc' = useEffectLoad(isInitialized, TRUE, loadPc)
  /\ lastEvent' = "client"
  /\ UNCHANGED << isInitialized, jsonData, textInput, error, hasChanges,
                  isSaving, closeTimers, hostVars, edited >>

\* handlePaste: the textarea's onPaste
OnPaste ==
  /\ isInitialized
  /\ \E text \in PasteTexts, throws \in BOOLEAN :
       SetView(handleTextChange(View, text, throws))
  /\ lastEvent' = "paste"
  /\ edited' = TRUE
  /\ UNCHANGED << isInitialized, client, loadPc, closeTimers, hostVars >>

\* the Clear button's onClick
OnClear ==
  /\ isInitialized
  /\ SetView(handleClear(View))
  /\ lastEvent' = "clear"
  /\ edited' = TRUE
  /\ UNCHANGED << isInitialized, client, loadPc, closeTimers, hostVars >>

\* client.getValue() resolves
GetValueResolves ==
  /\ loadPc = "pending"
  /\ \E existing \in StoredValues, throws \in BOOLEAN :
       /\ SetView(loadExistingData(View, existing, throws))
       /\ lastEvent' = LoadPath(existing)
  /\ loadPc' = "done"
  /\ UNCHANGED << isInitialized, client, closeTimers, hostVars, edited >>

\* client.getValue() rejects
GetValueRejects ==
  /\ loadPc = "pending"
  /\ SetView(loadRejected(View))
  /\ lastEvent' = "loadReject"
  /\ loadPc' = "done"
  /\ UNCHANGED << isInitialized, client, closeTimers, hostVars, edited >>

\* the Save button's onClick; client.setValue returns or throws
OnSave ==
  /\ isInitialized
  /\ ~SaveDisabled(View)
  /\ setValueCalls < MaxSaves
  /\ \E throws \in BOOLEAN :
       LET r == handleSave(View, client, throws) IN
       /\ SetView(r.view)
       /\ closeTimers' = closeTimers + r.timers
       /\ setValueCalls' = setValueCalls + Len(r.calls)
       /\ setValueOk' =
            setValueOk + Cardinality({i \in 1..Len(r.calls) : r.calls[i].ok})
       /\ lastValue' =
            IF r.calls = <<>> THEN lastValue ELSE r.calls[Len(r.calls)].text
       /\ lastEvent' = IF r.calls = <<>> THEN "saveNoClient"
                       ELSE IF r.calls[Len(r.calls)].ok THEN "saveOk"
                       ELSE "saveThrow"
  /\ UNCHANGED << isInitialized, client, loadPc, closeAppCalls, edited >>

\* a timer scheduled by handleSave runs: client.closeApp()
CloseAppTimer ==
  /\ closeTimers > 0
  /\ closeTimers' = closeTimers - 1
  /\ closeAppCalls' = closeAppCalls + 1
  /\ lastEvent' = "closeApp"
  /\ UNCHANGED << isInitialized, client, jsonData, textInput, error,
                  hasChanges, isSaving, loadPc, setValueCalls, setValueOk,
                  lastValue, edited >>

Next ==
  \/ HookInitialize
  \/ ClientReady
  \/ OnPaste
  \/ OnClear
  \/ GetValueResolves
  \/ GetValueRejects
  \/ OnSave
  \/ CloseAppTimer

Spec == Init /\ [][Next]_vars

\* a scheduled timer is never cleared, so the event loop runs it
FairSpec == Spec /\ WF_vars(CloseAppTimer)

(***************************************************************************)
(* parseTextToJson on its own: every text of at most MaxLen characters     *)
(* over ParseAlphabet is held in textInput and parsed into jsonData.       *)
(***************************************************************************)
ParseAlphabet == {"a", ",", TAB, NL, SP}

Texts(n) == UNION { [1..k -> ParseAlphabet] : k \in 0..n }

InitParse ==
  /\ textInput \in Texts(MaxLen)
  /\ lastEvent = "input"
  /\ isInitialized = FALSE
  /\ client = FALSE
  /\ jsonData = JNull
  /\ error = Null
  /\ hasChanges = FALSE
  /\ isSaving = FALSE
  /\ loadPc = "idle"
  /\ closeTimers = 0
  /\ setValueCalls = 0
  /\ setValueOk = 0
  /\ lastValue = <<>>
  /\ closeAppCalls = 0
  /\ edited = FALSE

ParseText ==
  /\ lastEvent = "input"
  /\ jsonData' = parseTextToJson(textInput)
  /\ lastEvent' = "parsed"
  /\ UNCHANGED << isInitialized, client, textInput, error, hasChanges,
                  isSaving, loadPc, closeTimers, hostVars, edited >>

NextParse == ParseText

SpecParse == InitParse /\ [][NextParse]_vars

(***************************************************************************)
(* Properties.                                                             *)
(***************************************************************************)

\* C1: a Save (and so a client.setValue call) happens only from a state
\* where hasChanges is true and isSaving is false.
C1_SaveOnlyWhenEnabled ==
  [][ (setValueCalls' # setValueCalls
         \/ lastEvent' \in {"saveNoClient", "saveOk", "saveThrow"})
      => (hasChanges /\ ~isSaving) ]_vars

C1_Witness == lastEvent = "saveOk" /\ setValueCalls > 0

\* C2: right after handleTextChange ran (a paste, or the load's fallback),
\* an error message means no document and empty text, and a held document
\* has at least one row and comes with no error.
C2_PasteFailureClears ==
  lastEvent \in {"paste", "loadFallback"} =>
    /\ error # Null =>
         (error \in {ErrNoData, ErrParse} /\ jsonData = JNull /\ textInput = <<>>)
    /\ jsonData # JNull => (DataLength(jsonData) > 0 /\ error = Null)

C2_Witness ==
  /\ lastEvent = "paste"
  /\ error = ErrNoData
  /\ jsonData = JNull
  /\ textInput = <<>>

\* C3: a Save whose setValue throws sets the save error, leaves isSaving
\* false, keeps hasChanges (true), the document and the text, and schedules
\* no closeApp: Save is enabled again.
C3_SaveFailureRecovers ==
  [][ lastEvent' = "saveThrow" =>
        /\ error' = ErrSave
        /\ ~isSaving'
        /\ hasChanges' /\ hasChanges
        /\ jsonData' = jsonData
        /\ textInput' = textInput
        /\ closeTimers' = closeTimers
        /\ closeAppCalls' = closeAppCalls ]_vars

C3_Witness ==
  /\ lastEvent = "saveThrow"
  /\ error = ErrSave
  /\ hasChanges /\ ~isSaving
  /\ closeTimers = 0

\* C4: right after a load of a non-blank stored string, adopted directly or
\* through handleTextChange, hasChanges is false.
C4_LoadIsUnmodified ==
  lastEvent \in {"loadDirect", "loadFallback"} => ~hasChanges

C4_Witness ==
  /\ lastEvent = "loadFallback"
  /\ edited
  /\ jsonData # JNull
  /\ ~hasChanges

\* C5: a held document has at least one row.
C5_HeldDocumentHasRows ==
  jsonData # JNull => DataLength(jsonData) >= 1

\* C6: every closeApp call comes from the timer of a setValue call that
\* returned; a Save that throws or finds no client schedules none; and every
\* setValue call that returned is eventually followed by a closeApp call.
C6_CloseAppFollowsSuccess ==
  /\ [](closeAppCalls + closeTimers = setValueOk)
  /\ [][ lastEvent' \in {"saveThrow", "saveNoClient"} =>
           (closeTimers' = closeTimers /\ closeAppCalls' = closeAppCalls) ]_vars
  /\ \A n \in 1..MaxSaves : (setValueOk >= n) ~> (closeAppCalls >= n)

C6_Witness == lastEvent = "closeApp" /\ closeAppCalls = 1 /\ setValueOk = 1

\* whether position i of s lies inside a string literal
BackslashesBefore(s, j) ==
  CHOOSE n \in 0..(j - 1) :
    /\ \A k \in 1..n : s[j - k] = BS
    /\ n = j - 1 \/ s[j - n - 1] # BS
IsStringQuote(s, j) == s[j] = Q /\ BackslashesBefore(s, j) % 2 = 0
InString(s, i) ==
  Cardinality({j \in 1..(i - 1) : IsStringQuote(s, j)}) % 2 = 1
\* no whitespace between the tokens of s
IsCompact(s) == \A i \in 1..Len(s) : s[i] \in WS => InString(s, i)

\* C7: a Save with a client calls setValue once, with the empty string when
\* there is no document and otherwise with a whitespace-free JSON text that
\* parses back to the held document; when the call returned, hasChanges is
\* false and the error is cleared.
C7_SaveSerializes ==
  [][ lastEvent' \in {"saveOk", "saveThrow"} =>
        /\ setValueCalls' = setValueCalls + 1
        /\ jsonData = JNull => lastValue' = <<>>
        /\ jsonData # JNull =>
             /\ IsCompact(lastValue')
             /\ JSONparse(lastValue').ok
             /\ JSONparse(lastValue').v = jsonData
        /\ lastEvent' = "saveOk" =>
             (~hasChanges' /\ error' = Null /\ jsonData' = jsonData) ]_vars

C7_Witness ==
  /\ lastEvent = "saveOk"
  /\ jsonData = JNull
  /\ lastValue = <<>>
  /\ ~hasChanges /\ error = Null

\* C8 as stated: right after getValue rejected, the view is in its empty
\* initial state.
C8_RejectLeavesInitialView ==
  lastEvent = "loadReject" => View = InitialView

\* C8 amended: the rejection changes nothing of the view (no error is set);
\* the view is the empty initial one when no paste or clear came before.
C8_RejectChangesNothing ==
  /\ [][ lastEvent' = "loadReject" =>
           UNCHANGED << jsonData, textInput, error, hasChanges, isSaving >> ]_vars
  /\ []((lastEvent = "loadReject" /\ ~edited) => View = InitialView)

C8_Witness ==
  /\ lastEvent = "loadReject"
  /\ edited
  /\ jsonData # JNull
  /\ hasChanges

\* the pieces of s between the occurrences of d, by position
CutPoints(s, d) == {0, Len(s) + 1} \cup {i \in 1..Len(s) : s[i] = d}
Nth(S, k) == CHOOSE x \in S : Cardinality({y \in S : y < x}) = k - 1
Piece(s, d, k) ==
  SubSeq(s, Nth(CutPoints(s, d), k) + 1, Nth(CutPoints(s, d), k + 1) - 1)
PieceCount(s, d) == Cardinality(CutPoints(s, d)) - 1
\* c is p without the whitespace at its two ends
IsTrimOf(c, p) ==
  /\ c = <<>> \/ (c[1] \notin WS /\ c[Len(c)] \notin WS)
  /\ \E a \in 0..Len(p) :
       /\ a + Len(c) <= Len(p)
       /\ c = SubSeq(p, a + 1, a + Len(c))
       /\ \A i \in 1..a : p[i] \in WS
       /\ \A i \in (a + Len(c) + 1)..Len(p) : p[i] \in WS
\* the lines of text that are not blank, by their number
KeptLines(text) ==
  { k \in 1..PieceCount(text, NL) :
      \E i \in 1..Len(Piece(text, NL, k)) : Piece(text, NL, k)[i] \notin WS }
Rows(doc) == Get(doc, DATA).items

\* C9: the rows are the non-blank lines in order; a line with a tab is cut
\* at its tabs only, a line without at its commas; the cells, in order, are
\* the pieces trimmed.
C9_DelimiterPerLine ==
  lastEvent = "parsed" =>
    /\ Len(Rows(jsonData)) = Cardinality(KeptLines(textInput))
    /\ \A n \in 1..Len(Rows(jsonData)) :
         LET line == Piece(textInput, NL, Nth(KeptLines(textInput), n))
             d == IF \E i \in 1..Len(line) : line[i] = TAB THEN TAB ELSE ","
             cells == Rows(jsonData)[n].items
         IN /\ Len(cells) = PieceCount(line, d)
            /\ \A j \in 1..Len(cells) :
                 cells[j].t = "str" /\ IsTrimOf(cells[j].s, Piece(line, d, j))

\* two rows, and a cell of a tabbed line that holds a comma
C9_Witness ==
  /\ lastEvent = "parsed"
  /\ Len(Rows(jsonData)) = 2
  /\ \E i \in 1..Len(textInput) : textInput[i] = TAB
  /\ \E n \in 1..2 : \E j \in 1..Len(Rows(jsonData)[n].items) :
       Includes(Rows(jsonData)[n].items[j].s, ",")

\* C10: once a setValue call returned, isSaving is true for good, Save is
\* disabled, and no second call returns.
C10_OneSuccessfulSave ==
  /\ setValueOk >= 1 => (isSaving /\ SaveDisabled(View))
  /\ setValueOk <= 1

C10_Witness ==
  /\ setValueOk = 1
  /\ lastEvent = "paste"
  /\ hasChanges
  /\ closeTimers = 1

=============================================================================
